---- MODULE Spec2Model ----
(***************************************************************************)
(* A model of codegen_optimizer (src/src/main.rs): the flutter             *)
(* availability probe, the build.yaml synchronizer (scan, patch,           *)
(* serialize, cosmetic normalization) and the external command pipeline.   *)
(*                                                                         *)
(* Text is a sequence of one-character strings.  A few literal substrings  *)
(* that the code searches for as a whole ("part of", "@HiveType", ".dart", *)
(* a drive prefix "C:") are kept as single indivisible tokens; no other    *)
(* token of the alphabets shares a character with them, so a search for    *)
(* the literal is a search for the token.                                  *)
(*                                                                         *)
(* Four specifications share the variables:                                *)
(*   Spec        one run of main()                                         *)
(*   SpecFormat  format_build_yaml's text transformation, applied twice    *)
(*   SpecPartOf  process_part_of on bounded contents                       *)
(*   SpecScan    the loop of find_files_with_annotation over a tree        *)
(* Each one leaves the variables of the others at their initial value.     *)
(***************************************************************************)
EXTENDS Integers, Sequences, FiniteSets, TLC

VARIABLES
    pc,          \* position of the modelled code
    \* ---- SpecFormat
    f_in,        \* [content, wd, sep]: file text, working dir, MAIN_SEPARATOR
    f_once,      \* text after one normalization
    f_twice,     \* text after a second normalization
    \* ---- SpecPartOf
    p_file,      \* file_path
    p_content,   \* content
    p_result,    \* the PathBuf returned
    \* ---- SpecScan
    s_tree,      \* the directory tree under working_dir
    s_kind,      \* annotation_type
    s_left,      \* entries WalkDir has not yielded yet
    s_acc,       \* files_with_annotation
    s_out,       \* the Vec<String> returned
    \* ---- Spec (main)
    env,         \* the environment of the run, fixed at start
    disk,        \* build.yaml on disk: Absent or a text
    yaml,        \* yaml_content, the in-memory document
    todo,        \* annotation kinds the update loop has not visited yet
    wbuf,        \* text still to be written by the write in progress
    cmds,        \* pipeline commands started so far, with their outcome
    log,         \* every external effect of the run, in order
    result       \* what main returned: "none" while running, "ok", or an error

fmtVars == <<f_in, f_once, f_twice>>
poVars == <<p_file, p_content, p_result>>
scVars == <<s_tree, s_kind, s_left, s_acc, s_out>>
runVars == <<env, disk, yaml, todo, wbuf, cmds, log, result>>
vars == <<pc, fmtVars, poVars, scVars, runVars>>

(***************************************************************************)
(* Bounds                                                                  *)
(***************************************************************************)
MaxTextLen == 6
MaxContentLen == 5
MaxFiles == 3
RunFiles == 1

(***************************************************************************)
(* Strings                                                                 *)
(***************************************************************************)
SeqsUpTo(S, n) == UNION {[1..k -> S] : k \in 0..n}

\* pat occurs in s at index i
MatchesAt(s, pat, i) ==
    /\ i + Len(pat) - 1 <= Len(s)
    /\ \A j \in 1..Len(pat) : s[i + j - 1] = pat[j]

\* str::find from index `from`: the first index >= from where pat occurs, 0 if none
FindFrom(s, pat, from) ==
    LET hits == {i \in from..Len(s) : MatchesAt(s, pat, i)}
    IN  IF hits = {} THEN 0 ELSE CHOOSE i \in hits : \A j \in hits : i <= j

Find(s, pat) == FindFrom(s, pat, 1)

Contains(s, pat) == Find(s, pat) # 0

\* str::replace: every non-overlapping occurrence, found left to right in ONE scan
\* of the input; the replacement text is not rescanned.
RECURSIVE ReplaceFrom(_, _, _, _)
ReplaceFrom(s, pat, rep, from) ==
    LET i == FindFrom(s, pat, from)
    IN  IF from > Len(s) THEN <<>>
        ELSE IF i = 0 THEN SubSeq(s, from, Len(s))
        ELSE SubSeq(s, from, i - 1) \o rep \o ReplaceFrom(s, pat, rep, i + Len(pat))

Replace(s, pat, rep) == ReplaceFrom(s, pat, rep, 1)

(***************************************************************************)
(* format_build_yaml: the text transformation                              *)
(***************************************************************************)
QUOTE == "'"
DQUOTE == "\""

\* format!("{}{}", working_dir.display(), MAIN_SEPARATOR)
Prefix(wd, sep) == wd \o <<sep>>

FormatText(content, wd, sep) ==
    Replace(Replace(Replace(content, <<QUOTE>>, <<>>), Prefix(wd, sep), <<>>),
            <<sep>>, <<"/">>)

(***************************************************************************)
(* SpecFormat                                                              *)
(***************************************************************************)
\* MAIN_SEPARATOR and a current_dir() of the platform the binary is built for
Platforms ==
    { [sep |-> "/", wd |-> <<"/", "w">>],
      [sep |-> "\\", wd |-> <<"C:", "\\", "w">>] }

TextAlphabet == {QUOTE, "/", "\\", "w", "C:"}

FmtInit ==
    /\ pc = "fmt0"
    /\ \E pl \in Platforms, t \in SeqsUpTo(TextAlphabet, MaxTextLen) :
          f_in = [content |-> t, wd |-> pl.wd, sep |-> pl.sep]
    /\ f_once = <<>>
    /\ f_twice = <<>>

FormatOnce ==
    /\ pc = "fmt0"
    /\ f_once' = FormatText(f_in.content, f_in.wd, f_in.sep)
    /\ pc' = "fmt1"
    /\ UNCHANGED <<f_in, f_twice, poVars, scVars, runVars>>

FormatAgain ==
    /\ pc = "fmt1"
    /\ f_twice' = FormatText(f_once, f_in.wd, f_in.sep)
    /\ pc' = "fmt2"
    /\ UNCHANGED <<f_in, f_once, poVars, scVars, runVars>>

(***************************************************************************)
(* Paths (std::path on a unix target)                                      *)
(***************************************************************************)
SEP == "/"

RECURSIVE StripTrailingSeps(_)
StripTrailingSeps(p) ==
    IF Len(p) > 1 /\ p[Len(p)] = SEP THEN StripTrailingSeps(SubSeq(p, 1, Len(p) - 1))
    ELSE p

LastSep(p) ==
    LET hits == {i \in 1..Len(p) : p[i] = SEP}
    IN  IF hits = {} THEN 0 ELSE CHOOSE i \in hits : \A j \in hits : j <= i

\* file_path.parent().unwrap_or_else(|| Path::new(""))
ParentOrEmpty(p) ==
    LET q == StripTrailingSeps(p)
        i == LastSep(q)
    IN  IF q = <<>> \/ q = <<SEP>> \/ i = 0 THEN <<>>
        ELSE IF \A j \in 1..i : q[j] = SEP THEN <<SEP>>
        ELSE StripTrailingSeps(SubSeq(q, 1, i - 1))

\* Path::join (PathBuf::push): an absolute argument replaces the base
Join(base, name) ==
    IF name # <<>> /\ name[1] = SEP THEN name
    ELSE IF base = <<>> \/ base[Len(base)] = SEP THEN base \o name
    ELSE base \o <<SEP>> \o name

\* the last component of a path
FileName(p) ==
    LET q == StripTrailingSeps(p)
    IN  SubSeq(q, LastSep(q) + 1, Len(q))

\* entry.path().extension().and_then(|s| s.to_str()) == Some("dart"): the file
\* name ends in ".dart" and is not ".dart" alone (a leading dot starts no extension)
HasDartExtension(p) ==
    LET n == FileName(p)
    IN  Len(n) >= 2 /\ n[Len(n)] = ".dart"

(***************************************************************************)
(* process_part_of                                                         *)
(***************************************************************************)
PART_OF == "part of"
WhiteSpace == {" ", "\n"}

RECURSIVE TrimStart(_)
TrimStart(s) ==
    IF s # <<>> /\ s[1] \in WhiteSpace THEN TrimStart(Tail(s)) ELSE s

RECURSIVE TrimEnd(_)
TrimEnd(s) ==
    IF s # <<>> /\ s[Len(s)] \in WhiteSpace THEN TrimEnd(SubSeq(s, 1, Len(s) - 1))
    ELSE s

Trim(s) == TrimEnd(TrimStart(s))

process_part_of(file_path, content) ==
    LET idx == Find(content, <<PART_OF, " ">>)
        after == SubSeq(content, idx + 2, Len(content))
        end_idx == Find(after, <<";">>)
        parent_file == Trim(SubSeq(after, 1, end_idx - 1))
    IN  IF Contains(content, <<PART_OF>>) /\ idx # 0 /\ end_idx # 0
        THEN Join(ParentOrEmpty(file_path), parent_file)
        ELSE file_path

(***************************************************************************)
(* SpecPartOf                                                              *)
(***************************************************************************)
ContentAlphabet == {PART_OF, " ", "\n", ";", "x", SEP}

PartOfFiles ==
    { <<SEP, "w", SEP, "a", ".dart">>,
      <<SEP, "w", SEP, "m", SEP, "a", ".dart">> }

PoInit ==
    /\ pc = "po0"
    /\ p_file \in PartOfFiles
    /\ p_content \in SeqsUpTo(ContentAlphabet, MaxContentLen)
    /\ p_result = <<>>

Resolve ==
    /\ pc = "po0"
    /\ p_result' = process_part_of(p_file, p_content)
    /\ pc' = "po_done"
    /\ UNCHANGED <<p_file, p_content, fmtVars, scVars, runVars>>

(***************************************************************************)
(* PatternRegistry                                                         *)
(***************************************************************************)
AnnotationType == {"CopyWith", "JsonSerializable", "Hive"}

\* AnnotationPattern.pattern: r"@<Marker>\s*\(", the marker kept as one token
PatternMarker(annotation_type) ==
    CASE annotation_type = "CopyWith" -> "@CopyWith"
      [] annotation_type = "JsonSerializable" -> "@JsonSerializable"
      [] annotation_type = "Hive" -> "@HiveType"

builder_key(annotation_type) ==
    CASE annotation_type = "CopyWith" -> "copy_with_extension_gen"
      [] annotation_type = "JsonSerializable" -> "json_serializable"
      [] annotation_type = "Hive" -> "hive_generator"

\* regex.is_match(&content): the marker, any run of whitespace, an opening parenthesis
RegexIsMatch(annotation_type, content) ==
    \E i \in 1..Len(content) :
        /\ content[i] = PatternMarker(annotation_type)
        /\ \E j \in (i + 1)..Len(content) :
              /\ content[j] = "("
              /\ \A k \in (i + 1)..(j - 1) : content[k] \in WhiteSpace

(***************************************************************************)
(* Sorting of strings (byte order)                                         *)
(***************************************************************************)
ByteOrder ==
    << "\n", " ", DQUOTE, QUOTE, "(", ".dart", ".txt", SEP, ";",
       "@CopyWith", "@HiveType", "@JsonSerializable",
       "a", "b", "c", "m", "p", PART_OF, "w", "x" >>

Rank(c) == CHOOSE i \in 1..Len(ByteOrder) : ByteOrder[i] = c

RECURSIVE LexLeq(_, _)
LexLeq(a, b) ==
    IF a = <<>> THEN TRUE
    ELSE IF b = <<>> THEN FALSE
    ELSE IF a[1] = b[1] THEN LexLeq(Tail(a), Tail(b))
    ELSE Rank(a[1]) < Rank(b[1])

RECURSIVE Insert(_, _)
Insert(x, sorted) ==
    IF sorted = <<>> THEN <<x>>
    ELSE IF LexLeq(x, sorted[1]) THEN <<x>> \o sorted
    ELSE <<sorted[1]>> \o Insert(x, Tail(sorted))

RECURSIVE SortStrings(_)
SortStrings(v) ==
    IF v = <<>> THEN <<>> ELSE Insert(v[1], SortStrings(Tail(v)))

(***************************************************************************)
(* find_files_with_annotation                                              *)
(***************************************************************************)
\* format!("\"{}\"", f)
Quoted(f) == <<DQUOTE>> \o f \o <<DQUOTE>>

\* What WalkDir::new(working_dir).into_iter().filter_map(|e| e.ok()) yields: a
\* traversal error (of the root, or of one entry) is dropped, never returned.
Yielded(tree) ==
    IF tree.root_ok THEN {e \in tree.entries : e.walk_ok} ELSE {}

\* Mutant: the matching file's own path is pushed, the part-of redirect forgotten
EntryHits_NoRedirect(e, annotation_type) ==
    IF ~HasDartExtension(e.path) THEN <<>>
    ELSE IF ~e.readable THEN <<>>
    ELSE IF RegexIsMatch(annotation_type, e.content) THEN <<e.path>>
    ELSE <<>>

\* The loop body for one entry: what it pushes to files_with_annotation
EntryHits(e, annotation_type) ==
    IF ~HasDartExtension(e.path) THEN <<>>
    ELSE IF ~e.readable THEN <<>>
    ELSE IF RegexIsMatch(annotation_type, e.content)
         THEN <<process_part_of(e.path, e.content)>>
    ELSE <<>>

\* quoted_files: map, sort
QuoteAndSort(files) ==
    SortStrings([i \in 1..Len(files) |-> Quoted(files[i])])

RECURSIVE WalkAll(_, _)
WalkAll(entries, annotation_type) ==
    IF entries = {} THEN <<>>
    ELSE LET e == CHOOSE x \in entries : TRUE
         IN  EntryHits(e, annotation_type) \o WalkAll(entries \ {e}, annotation_type)

\* The whole function; always Ok (get_pattern knows every AnnotationType)
find_files_with_annotation(tree, annotation_type) ==
    QuoteAndSort(WalkAll(Yielded(tree), annotation_type))

(***************************************************************************)
(* SpecScan                                                                *)
(***************************************************************************)
WORKING_DIR == <<SEP, "w">>

ScanPaths ==
    << WORKING_DIR \o <<SEP, "a", ".dart">>,
       WORKING_DIR \o <<SEP, "p", ".dart">>,
       WORKING_DIR \o <<SEP, "c", ".txt">>,
       WORKING_DIR \o <<SEP, "m", SEP, "b", ".dart">>,
       WORKING_DIR \o <<SEP, "m", SEP, "p", ".dart">> >>

PlainHive == <<"@HiveType", "(">>
PartHive == <<PART_OF, " ", "p", ".dart", ";", "\n", "@HiveType", " ", "(">>
NoParen == <<"@HiveType", "x", "(">>
CopyUnterminated == <<"@CopyWith", "\n", "(", PART_OF, " ", "p", ".dart">>

FileStates ==
    { [walk_ok |-> TRUE, readable |-> TRUE, content |-> PlainHive],
      [walk_ok |-> TRUE, readable |-> TRUE, content |-> PartHive],
      [walk_ok |-> TRUE, readable |-> TRUE, content |-> NoParen],
      [walk_ok |-> TRUE, readable |-> TRUE, content |-> CopyUnterminated],
      [walk_ok |-> TRUE, readable |-> FALSE, content |-> PlainHive],
      [walk_ok |-> FALSE, readable |-> TRUE, content |-> PlainHive] }

MkEntry(path, st) ==
    [path |-> path, walk_ok |-> st.walk_ok, readable |-> st.readable,
     content |-> st.content]

Trees(n) ==
    { [root_ok |-> r, entries |-> {MkEntry(ScanPaths[i], st[i]) : i \in 1..n}] :
        r \in BOOLEAN, st \in [1..n -> FileStates] }

ScInit ==
    /\ pc = "scan"
    /\ s_tree \in Trees(MaxFiles)
    /\ s_kind \in AnnotationType
    /\ s_left = Yielded(s_tree)
    /\ s_acc = <<>>
    /\ s_out = <<>>

\* One iteration of the for loop, in whatever order the directory walk yields
ScanEntry ==
    /\ pc = "scan"
    /\ \E e \in s_left :
          /\ s_acc' = s_acc \o EntryHits(e, s_kind)
          /\ s_left' = s_left \ {e}
    /\ UNCHANGED <<pc, s_tree, s_kind, s_out, fmtVars, poVars, runVars>>

ScanFinish ==
    /\ pc = "scan"
    /\ s_left = {}
    /\ s_out' = QuoteAndSort(s_acc)
    /\ pc' = "scan_done"
    /\ UNCHANGED <<s_tree, s_kind, s_left, s_acc, fmtVars, poVars, runVars>>

(***************************************************************************)
(* The configuration document (serde_yaml::Value)                          *)
(*                                                                         *)
(* A document is a function from key paths to leaves.  A leaf is a string  *)
(* scalar (kind "str", one item) or a sequence of string scalars (kind     *)
(* "seq").  A mapping is present exactly when some leaf lies below it.     *)
(***************************************************************************)
Str(s) == [kind |-> "str", items |-> <<s>>]
SeqOf(items) == [kind |-> "seq", items |-> items]

IsPrefix(pre, p) == Len(pre) <= Len(p) /\ SubSeq(p, 1, Len(pre)) = pre

\* Value::get_mut chained along `path`: Some exactly when every segment is a key
\* of the mapping reached so far
HasPath(doc, path) == \E p \in DOMAIN doc : IsPrefix(path, p)

DocOf(pairs) ==
    [p \in {x[1] : x \in pairs} |-> (CHOOSE x \in pairs : x[1] = p)[2]]

GeneratePath(annotation_type) ==
    <<"targets", "$default", "builders", builder_key(annotation_type), "generate_for">>

\* *generate_for = Value::Sequence(files): whatever was below generate_for goes
SetSequence(doc, path, files) ==
    [p \in {q \in DOMAIN doc : ~IsPrefix(path, q)} \cup {path} |->
        IF p = path THEN SeqOf(files) ELSE doc[p]]

\* Mutant: the list is written even where the document declares no generate_for
UpdateKind_Creating(doc, tree, annotation_type) ==
    SetSequence(doc, GeneratePath(annotation_type),
                find_files_with_annotation(tree, annotation_type))

\* The body of the update loop for one annotation kind
UpdateKind(doc, tree, annotation_type) ==
    IF HasPath(doc, GeneratePath(annotation_type))
    THEN SetSequence(doc, GeneratePath(annotation_type),
                     find_files_with_annotation(tree, annotation_type))
    ELSE doc

(***************************************************************************)
(* The text of build.yaml                                                  *)
(*                                                                         *)
(* A text is a sequence of lines.  A line keeps the key path it belongs to *)
(* and its position in a list symbolically, and the scalar it carries as   *)
(* characters.  Keys hold no quote, no separator and no line break, so the *)
(* three textual replacements act on each scalar's characters.            *)
(***************************************************************************)
\* build.yaml on disk: missing, or a file with its text
Absent == [exists |-> FALSE, text |-> <<>>]
File(text) == [exists |-> TRUE, text |-> text]
EMPTY_LIST == "[]"

\* The scalar as the emitter writes it: plain when the text allows it, else
\* single-quoted with every single quote doubled
EmitScalar(s) ==
    IF s = <<>> THEN <<QUOTE, QUOTE>>
    ELSE IF s[1] \in {QUOTE, DQUOTE} \/ s = <<EMPTY_LIST>>
         THEN <<QUOTE>> \o Replace(s, <<QUOTE>>, <<QUOTE, QUOTE>>) \o <<QUOTE>>
    ELSE s

EmitLeaf(path, leaf) ==
    IF leaf.kind = "str" THEN <<[key |-> path, idx |-> 0, txt |-> EmitScalar(leaf.items[1])]>>
    ELSE IF leaf.items = <<>> THEN <<[key |-> path, idx |-> 0, txt |-> <<EMPTY_LIST>>]>>
    ELSE [i \in 1..Len(leaf.items) |->
            [key |-> path, idx |-> i, txt |-> EmitScalar(leaf.items[i])]]

OtherKey == "freezed"

\* Every key path of the documents considered, in document order
DocOrder ==
    << <<"note">>,
       <<"targets">>,
       <<"targets", "lib", "auto_apply">>,
       <<"targets", "$default", "sources">>,
       <<"targets", "$default", "builders", OtherKey, "generate_for">>,
       <<"targets", "$default", "builders", "copy_with_extension_gen", "enabled">>,
       <<"targets", "$default", "builders", "copy_with_extension_gen", "generate_for">>,
       <<"targets", "$default", "builders", "json_serializable", "enabled">>,
       <<"targets", "$default", "builders", "json_serializable", "generate_for">>,
       <<"targets", "$default", "builders", "hive_generator", "enabled">>,
       <<"targets", "$default", "builders", "hive_generator", "generate_for">> >>

RECURSIVE SerializeFrom(_, _)
SerializeFrom(doc, i) ==
    IF i > Len(DocOrder) THEN <<>>
    ELSE (IF DocOrder[i] \in DOMAIN doc THEN EmitLeaf(DocOrder[i], doc[DocOrder[i]])
          ELSE <<>>) \o SerializeFrom(doc, i + 1)

\* serde_yaml::to_writer: the whole document as text
Serialize(doc) == SerializeFrom(doc, 1)

\* The closing quote of a single-quoted scalar, scanning from i: 0 if there is none
RECURSIVE ClosingQuote(_, _)
ClosingQuote(txt, i) ==
    IF i > Len(txt) THEN 0
    ELSE IF txt[i] # QUOTE THEN ClosingQuote(txt, i + 1)
    ELSE IF i < Len(txt) /\ txt[i + 1] = QUOTE THEN ClosingQuote(txt, i + 2)
    ELSE i

\* One scalar as the parser reads it
ParseScalar(txt) ==
    IF txt = <<>> THEN [ok |-> TRUE, s |-> <<>>]
    ELSE IF txt[1] = QUOTE THEN
        LET c == ClosingQuote(txt, 2)
        IN  IF c = Len(txt)
            THEN [ok |-> TRUE,
                  s |-> Replace(SubSeq(txt, 2, c - 1), <<QUOTE, QUOTE>>, <<QUOTE>>)]
            ELSE [ok |-> FALSE, s |-> <<>>]
    ELSE IF txt[1] = DQUOTE THEN
        LET c == FindFrom(txt, <<DQUOTE>>, 2)
        IN  IF c = Len(txt) THEN [ok |-> TRUE, s |-> SubSeq(txt, 2, c - 1)]
            ELSE [ok |-> FALSE, s |-> <<>>]
    ELSE [ok |-> TRUE, s |-> txt]

LinesOf(text, key) == SelectSeq(text, LAMBDA l : l.key = key)

ParseLeaf(lines) ==
    IF lines[1].idx = 0 /\ lines[1].txt = <<EMPTY_LIST>> THEN SeqOf(<<>>)
    ELSE IF lines[1].idx = 0 THEN Str(ParseScalar(lines[1].txt).s)
    ELSE SeqOf([i \in 1..Len(lines) |-> ParseScalar(lines[i].txt).s])

\* serde_yaml::from_str: an error when a scalar cannot be read
Parse(text) ==
    IF \E i \in 1..Len(text) : ~ParseScalar(text[i].txt).ok
    THEN [ok |-> FALSE, doc |-> <<>>]
    ELSE [ok |-> TRUE,
          doc |-> [p \in {text[i].key : i \in 1..Len(text)} |->
                      ParseLeaf(LinesOf(text, p))]]

\* format_build_yaml's three replacements over the whole text
FormatLines(text, wd, sep) ==
    [i \in 1..Len(text) |-> [text[i] EXCEPT !.txt = FormatText(@, wd, sep)]]

(***************************************************************************)
(* The runs considered                                                     *)
(***************************************************************************)
\* Values of the fields the tool does not own
OtherScalars ==
    { <<"m", SEP, "a">>,
      <<"w", QUOTE, "a">>,
      WORKING_DIR \o <<SEP, "a">>,
      <<DQUOTE, "a">> }

Shapes == {"no_targets", "targets_scalar", "no_default", "no_builders", "builders"}
Sections == {"list", "no_generate_for", "absent"}

SectionPairs(annotation_type, section) ==
    CASE section = "list" ->
           {<<GeneratePath(annotation_type), SeqOf(<< <<"x", ".dart">> >>)>>}
      [] section = "no_generate_for" ->
           {<< <<"targets", "$default", "builders", builder_key(annotation_type),
                 "enabled">>, Str(<<"a">>) >>}
      [] section = "absent" -> {}

MkDoc(shape, sect, v) ==
    DocOf({<< <<"note">>, Str(v) >>} \cup
      (CASE shape = "no_targets" -> {}
         [] shape = "targets_scalar" -> {<< <<"targets">>, Str(<<"a">>) >>}
         [] shape = "no_default" ->
              {<< <<"targets", "lib", "auto_apply">>, Str(<<"a">>) >>}
         [] shape = "no_builders" ->
              {<< <<"targets", "$default", "sources">>, SeqOf(<< <<"m", SEP, "a">> >>) >>}
         [] shape = "builders" ->
              {<< <<"targets", "$default", "builders", OtherKey, "generate_for">>,
                  SeqOf(<<v>>) >>}
              \cup UNION {SectionPairs(k, sect[k]) : k \in AnnotationType}))

Docs ==
    {MkDoc("builders", sect, v) : sect \in [AnnotationType -> Sections], v \in OtherScalars}
    \cup {MkDoc(shape, [k \in AnnotationType |-> "absent"], v) :
            shape \in Shapes \ {"builders"}, v \in OtherScalars}

\* A build.yaml that is no valid document: an unterminated quoted scalar
Garbage == <<[key |-> <<"note">>, idx |-> 0, txt |-> <<DQUOTE, "a">>]>>

RunFileStates ==
    { [walk_ok |-> TRUE, readable |-> TRUE, content |-> PlainHive],
      [walk_ok |-> TRUE, readable |-> TRUE, content |-> PartHive],
      [walk_ok |-> TRUE, readable |-> FALSE, content |-> PlainHive] }

RunTrees ==
    {t \in Trees(RunFiles) : \A e \in t.entries :
        [walk_ok |-> e.walk_ok, readable |-> e.readable, content |-> e.content]
            \in RunFileStates}

\* How a spawned command ends: exit status 0, a non-zero exit status, or the
\* spawn itself failing (Command::output() returning Err)
Outcomes == {"success", "nonzero", "spawn_error"}

FLUTTER == "flutter"
VersionArgs == <<"--version">>

\* The four run_command calls of main, in program order
Pipeline ==
    << <<"clean">>,
       <<"pub", "upgrade">>,
       <<"pub", "get">>,
       <<"pub", "run", "build_runner", "build", "--delete-conflicting-outputs">> >>

NoResult == [status |-> "none", kind |-> "none", at |-> "none"]
Ok == [status |-> "ok", kind |-> "none", at |-> "none"]
Err(kind, at) == [status |-> "err", kind |-> kind, at |-> at]

\* One external effect: the operation, what it was applied to, how it ended
Event(op, arg, outcome) == [op |-> op, arg |-> arg, outcome |-> outcome]

\* build.yaml as the run finds it
InitialFiles == {Absent, File(Garbage)} \cup {File(Serialize(d)) : d \in Docs}

Init ==
    /\ pc = "start"
    /\ \E tree \in RunTrees, file \in InitialFiles :
          /\ env = [tree |-> tree, disk0 |-> file]
          /\ disk = file
    /\ yaml = <<>>
    /\ todo = {}
    /\ wbuf = <<>>
    /\ cmds = <<>>
    /\ log = <<>>
    /\ result = NoResult
    /\ f_in = <<>> /\ f_once = <<>> /\ f_twice = <<>>
    /\ p_file = <<>> /\ p_content = <<>> /\ p_result = <<>>
    /\ s_tree = <<>> /\ s_kind = "" /\ s_left = {} /\ s_acc = <<>> /\ s_out = <<>>

others == <<fmtVars, poVars, scVars>>

\* main returns Err(e)
Fail(kind) ==
    /\ result' = Err(kind, pc)
    /\ pc' = "done"

(***************************************************************************)
(* check_flutter_installed                                                 *)
(***************************************************************************)
\* Mutant: main logs the failed check and carries on
WhichFlutter_ErrorIgnored ==
    /\ pc = "start"
    /\ \E found \in BOOLEAN :
          /\ log' = Append(log, Event("which", <<FLUTTER>>,
                                       IF found THEN "success" ELSE "not_found"))
          /\ pc' = IF found THEN "version" ELSE "cwd"
    /\ UNCHANGED <<env, disk, yaml, todo, wbuf, cmds, result, others>>

\* which::which("flutter"), and main's early return when it fails
WhichFlutter ==
    /\ pc = "start"
    /\ \E found \in BOOLEAN :
          /\ log' = Append(log, Event("which", <<FLUTTER>>,
                                       IF found THEN "success" ELSE "not_found"))
          /\ IF found THEN pc' = "version" /\ UNCHANGED result
             ELSE Fail("flutter_not_found")
    /\ UNCHANGED <<env, disk, yaml, todo, wbuf, cmds, others>>

\* run_command(flutter_cmd, &["--version"])?
VersionProbe ==
    /\ pc = "version"
    /\ \E outcome \in Outcomes :
          /\ log' = Append(log, Event("spawn", VersionArgs, outcome))
          /\ IF outcome = "success" THEN pc' = "cwd" /\ UNCHANGED result
             ELSE Fail("version_check_failed")
    /\ UNCHANGED <<env, disk, yaml, todo, wbuf, cmds, others>>

(***************************************************************************)
(* main, and update_build_yaml                                             *)
(***************************************************************************)
\* std::env::current_dir()?
CurrentDir ==
    /\ pc = "cwd"
    /\ \E ok \in BOOLEAN :
          IF ok THEN pc' = "read" /\ UNCHANGED result
          ELSE Fail("current_dir")
    /\ UNCHANGED <<env, disk, yaml, todo, wbuf, cmds, log, others>>

\* Mutant: a missing build.yaml is read as an empty document
ReadYamlFile_MissingAsEmpty ==
    /\ pc = "read"
    /\ log' = Append(log, Event("read", <<"build.yaml">>,
                                 IF ~disk.exists THEN "not_found"
                                 ELSE IF ~Parse(disk.text).ok THEN "invalid"
                                 ELSE "success"))
    /\ IF disk.exists /\ ~Parse(disk.text).ok
       THEN Fail("config_parse") /\ UNCHANGED <<yaml, todo>>
       ELSE /\ yaml' = Parse(disk.text).doc
            /\ todo' = AnnotationType
            /\ pc' = "update"
            /\ UNCHANGED result
    /\ UNCHANGED <<env, disk, wbuf, cmds, others>>

\* self.read_yaml_file()?
ReadYamlFile ==
    /\ pc = "read"
    /\ log' = Append(log, Event("read", <<"build.yaml">>,
                                 IF ~disk.exists THEN "not_found"
                                 ELSE IF ~Parse(disk.text).ok THEN "invalid"
                                 ELSE "success"))
    /\ IF ~disk.exists THEN Fail("config_not_found") /\ UNCHANGED <<yaml, todo>>
       ELSE IF ~Parse(disk.text).ok THEN Fail("config_parse") /\ UNCHANGED <<yaml, todo>>
       ELSE /\ yaml' = Parse(disk.text).doc
            /\ todo' = AnnotationType
            /\ pc' = "update"
            /\ UNCHANGED result
    /\ UNCHANGED <<env, disk, wbuf, cmds, others>>

\* One iteration of `for (annotation_type, pattern_info) in patterns.iter()`; a
\* HashMap iterates in no fixed order
UpdateStep ==
    /\ pc = "update"
    /\ \E k \in todo :
          /\ log' = Append(log, Event("scan", <<k>>, "success"))
          /\ yaml' = UpdateKind(yaml, env.tree, k)
          /\ todo' = todo \ {k}
    /\ UNCHANGED <<pc, env, disk, wbuf, cmds, result, others>>

\* File::create(&self.build_yaml_path)?: the file is truncated when it is opened
CreateForSerialize ==
    /\ pc = "update"
    /\ todo = {}
    /\ \E ok \in BOOLEAN :
          IF ok THEN /\ disk' = File(<<>>)
                     /\ wbuf' = Serialize(yaml)
                     /\ log' = Append(log, Event("create", <<"build.yaml">>, "success"))
                     /\ pc' = "serialize"
                     /\ UNCHANGED result
          ELSE Fail("io") /\ UNCHANGED <<disk, wbuf, log>>
    /\ UNCHANGED <<env, yaml, todo, cmds, others>>

\* The text reaches the file piece by piece (serde_yaml::to_writer at "serialize",
\* file.write_all at "format_write"); a write can fail
WriteChunk ==
    /\ pc \in {"serialize", "format_write"}
    /\ wbuf # <<>>
    /\ \E ok \in BOOLEAN :
          IF ok THEN /\ disk' = File(Append(disk.text, Head(wbuf)))
                     /\ wbuf' = Tail(wbuf)
                     /\ log' = Append(log, Event("write", <<"build.yaml">>, "success"))
                     /\ UNCHANGED <<pc, result>>
          ELSE Fail("io") /\ UNCHANGED <<disk, wbuf, log>>
    /\ UNCHANGED <<env, yaml, todo, cmds, others>>

\* The serialized file is closed and format_build_yaml reads it back
FormatRead ==
    /\ pc = "serialize"
    /\ wbuf = <<>>
    /\ wbuf' = FormatLines(disk.text, WORKING_DIR, SEP)
    /\ log' = Append(log, Event("read", <<"build.yaml">>, "success"))
    /\ pc' = "format_create"
    /\ UNCHANGED <<env, disk, yaml, todo, cmds, result, others>>

\* File::create(&self.build_yaml_path)? in format_build_yaml
CreateForFormat ==
    /\ pc = "format_create"
    /\ \E ok \in BOOLEAN :
          IF ok THEN /\ disk' = File(<<>>)
                     /\ log' = Append(log, Event("create", <<"build.yaml">>, "success"))
                     /\ pc' = "format_write"
                     /\ UNCHANGED result
          ELSE Fail("io") /\ UNCHANGED <<disk, log>>
    /\ UNCHANGED <<env, yaml, todo, wbuf, cmds, others>>

\* update_build_yaml returns Ok(())
UpdateDone ==
    /\ pc = "format_write"
    /\ wbuf = <<>>
    /\ pc' = "pipeline"
    /\ UNCHANGED <<env, disk, yaml, todo, wbuf, cmds, log, result, others>>

(***************************************************************************)
(* The pipeline: the four run_command(..)? of main                         *)
(***************************************************************************)
\* Mutant: the command's Result is dropped instead of propagated with `?`
AfterCommand_FailureIgnored(i, outcome) ==
    IF i = Len(Pipeline) THEN result' = Ok /\ pc' = "done"
    ELSE UNCHANGED <<pc, result>>

\* What main does after the command at position i ended with `outcome`
AfterCommand(i, outcome) ==
    IF outcome # "success" THEN Fail("command_failed")
    ELSE IF i = Len(Pipeline) THEN result' = Ok /\ pc' = "done"
    ELSE UNCHANGED <<pc, result>>

RunPipelineCommand ==
    /\ pc = "pipeline"
    /\ \E outcome \in Outcomes :
          LET i == Len(cmds) + 1
          IN  /\ cmds' = Append(cmds, [args |-> Pipeline[i], outcome |-> outcome])
              /\ log' = Append(log, Event("spawn", Pipeline[i], outcome))
              /\ AfterCommand(i, outcome)
    /\ UNCHANGED <<env, disk, yaml, todo, wbuf, others>>

\* The process is interrupted: what is in memory is lost, the file stays as it is
Crash ==
    /\ pc \notin {"done", "crashed"}
    /\ pc' = "crashed"
    /\ yaml' = <<>>
    /\ todo' = {}
    /\ wbuf' = <<>>
    /\ UNCHANGED <<env, disk, cmds, log, result, others>>

Next ==
    \/ WhichFlutter
    \/ VersionProbe
    \/ CurrentDir
    \/ ReadYamlFile
    \/ UpdateStep
    \/ CreateForSerialize
    \/ WriteChunk
    \/ FormatRead
    \/ CreateForFormat
    \/ UpdateDone
    \/ RunPipelineCommand
    \/ Crash

Spec == Init /\ [][Next]_vars

(***************************************************************************)
(* The specifications of the pure parts                                    *)
(***************************************************************************)
RunIdle ==
    /\ env = <<>> /\ disk = Absent /\ yaml = <<>> /\ todo = {} /\ wbuf = <<>>
    /\ cmds = <<>> /\ log = <<>> /\ result = NoResult

FmtIdle == f_in = <<>> /\ f_once = <<>> /\ f_twice = <<>>
PoIdle == p_file = <<>> /\ p_content = <<>> /\ p_result = <<>>
ScIdle == s_tree = <<>> /\ s_kind = "" /\ s_left = {} /\ s_acc = <<>> /\ s_out = <<>>

FormatInit == FmtInit /\ PoIdle /\ ScIdle /\ RunIdle
FormatNext == FormatOnce \/ FormatAgain
SpecFormat == FormatInit /\ [][FormatNext]_vars

PartOfInit == PoInit /\ FmtIdle /\ ScIdle /\ RunIdle
PartOfNext == Resolve
SpecPartOf == PartOfInit /\ [][PartOfNext]_vars

ScanInit == ScInit /\ FmtIdle /\ PoIdle /\ RunIdle
ScanNext == ScanEntry \/ ScanFinish
SpecScan == ScanInit /\ [][ScanNext]_vars

(***************************************************************************)
(* What the claims speak about                                             *)
(***************************************************************************)
Range(f) == {f[i] : i \in DOMAIN f}

Events(op) == SelectSeq(log, LAMBDA e : e.op = op)

\* The commands of the pipeline among the commands spawned (the version probe of
\* check_flutter_installed is none of them)
PipelineSpawns == SelectSeq(log, LAMBDA e : e.op = "spawn" /\ e.arg # VersionArgs)

\* The availability check failed: flutter was not found, or its probe did not succeed
AvailabilityFailed ==
    \E i \in 1..Len(log) :
        \/ log[i].op = "which" /\ log[i].outcome = "not_found"
        \/ log[i].op = "spawn" /\ log[i].arg = VersionArgs /\ log[i].outcome # "success"

\* The run found a build.yaml holding a valid document
ValidConfig == env.disk0.exists /\ Parse(env.disk0.text).ok

\* The document as it was loaded, and with every kind's list replaced
Doc0 == Parse(env.disk0.text).doc

FinalDoc ==
    UpdateKind(UpdateKind(UpdateKind(Doc0, env.tree, "CopyWith"),
                          env.tree, "JsonSerializable"), env.tree, "Hive")

SerializedFile == File(Serialize(FinalDoc))
NormalizedFile == File(FormatLines(Serialize(FinalDoc), WORKING_DIR, SEP))

GeneratePaths == {GeneratePath(k) : k \in AnnotationType}

\* yaml_content is alive: the document was loaded and the process was not interrupted
DocumentLoaded ==
    \/ pc \in {"update", "serialize", "format_create", "format_write", "pipeline"}
    \/ pc = "done" /\ result.at \notin {"start", "version", "cwd", "read"}

(***************************************************************************)
(* C1                                                                      *)
(***************************************************************************)
\* C1: when the availability check fails (flutter is not on PATH, or its version
\* probe does not succeed), the run has ended with an error and build.yaml was
\* never read, created or written, no directory was scanned and no pipeline
\* command was started.
C1_AvailabilityFailureStopsRun ==
    AvailabilityFailed =>
        /\ pc = "done"
        /\ result.status = "err"
        /\ \A i \in 1..Len(log) : log[i].op \notin {"read", "create", "write", "scan"}
        /\ PipelineSpawns = <<>>
        /\ disk = env.disk0

C1_Witness ==
    /\ pc = "done"
    /\ \E i \in 1..Len(log) : log[i].op = "which" /\ log[i].outcome = "not_found"
    /\ env.disk0.exists

(***************************************************************************)
(* C2                                                                      *)
(***************************************************************************)
\* C2 (as amended): when build.yaml is absent, nothing is ever scanned, no pipeline
\* command is ever started and the file is never created; a run that ends has
\* failed; and once the run has tried to load the file it has ended with the
\* not-found error of that read, the version probe being the one external command
\* it spawned.
C2_AbsentConfigFails ==
    ~env.disk0.exists =>
        /\ Events("scan") = <<>>
        /\ PipelineSpawns = <<>>
        /\ Events("create") = <<>> /\ Events("write") = <<>>
        /\ ~disk.exists
        /\ pc = "done" => result.status = "err"
        /\ Events("read") # <<>> =>
              /\ pc = "done"
              /\ result = Err("config_not_found", "read")
              /\ Events("spawn") = <<Event("spawn", VersionArgs, "success")>>

C2_Witness ==
    /\ ~env.disk0.exists
    /\ pc = "done"
    /\ result.kind = "config_not_found"

\* C2 as stated: the run that fails on the absent build.yaml has invoked no
\* external command at all.
C2_Original ==
    (~env.disk0.exists /\ pc = "done" /\ result.kind = "config_not_found") =>
        /\ Events("scan") = <<>>
        /\ Events("spawn") = <<>>

(***************************************************************************)
(* C3                                                                      *)
(***************************************************************************)
\* C3: the pipeline commands started are a prefix of clean, pub upgrade, pub get,
\* build_runner build, each once and in that order; none is started before
\* update_build_yaml has left the normalized document on disk; every command but
\* the last one started has succeeded; a command that failed (non-zero exit or
\* spawn failure) is the last one and the run has ended with an error; the run
\* ends with success only after all four succeeded.
C3_PipelineSequential ==
    LET n == Len(PipelineSpawns)
    IN  /\ n <= Len(Pipeline)
        /\ \A i \in 1..n : PipelineSpawns[i].arg = Pipeline[i]
        /\ \A i \in 1..(n - 1) : PipelineSpawns[i].outcome = "success"
        /\ n > 0 => ValidConfig /\ disk = NormalizedFile /\ Len(Events("create")) = 2
        /\ (n > 0 /\ PipelineSpawns[n].outcome # "success") =>
              pc = "done" /\ result.status = "err"
        /\ result.status = "ok" =>
              n = Len(Pipeline) /\ PipelineSpawns[n].outcome = "success"
        /\ (pc = "done" /\ result.status = "err" /\ n > 0) =>
              PipelineSpawns[n].outcome # "success"

C3_Witness ==
    /\ pc = "done"
    /\ Len(PipelineSpawns) = 3
    /\ PipelineSpawns[3].outcome = "nonzero"

(***************************************************************************)
(* C4                                                                      *)
(***************************************************************************)
\* C4: after a successful synchronization the document read back from build.yaml
\* has, at every key path other than the three generate_for paths, the value the
\* original document had there.
C4_OtherFieldsUntouched ==
    (pc = "pipeline" /\ ValidConfig) =>
        LET final == Parse(disk.text)
        IN  /\ final.ok
            /\ \A p \in DOMAIN Doc0 \ GeneratePaths :
                  p \in DOMAIN final.doc /\ final.doc[p] = Doc0[p]

(***************************************************************************)
(* C5                                                                      *)
(***************************************************************************)
\* C5: whenever the run is interrupted, build.yaml holds the original content, the
\* fully serialized updated document or the fully normalized document.
C5_AllOrNothing ==
    (pc = "crashed" /\ ValidConfig) =>
        disk \in {env.disk0, SerializedFile, NormalizedFile}

(***************************************************************************)
(* C9                                                                      *)
(***************************************************************************)
\* C9: while the loaded document is alive it has exactly the key paths of the
\* document that was loaded; a kind whose generate_for path is in the document and
\* that the loop has visited holds the scanned list, whatever the other kinds
\* lack; every other value is the loaded one; and the loop raises no error: a run
\* that failed after its first scan has scanned all three kinds and failed on
\* file I/O or on a pipeline command.
C9_OnlyReplacesLists ==
    /\ DocumentLoaded =>
          /\ DOMAIN yaml = DOMAIN Doc0
          /\ \A k \in AnnotationType :
                GeneratePath(k) \in DOMAIN Doc0 =>
                    yaml[GeneratePath(k)] =
                        IF k \in todo THEN Doc0[GeneratePath(k)]
                        ELSE SeqOf(find_files_with_annotation(env.tree, k))
          /\ \A p \in DOMAIN Doc0 \ GeneratePaths : yaml[p] = Doc0[p]
    /\ (result.status = "err" /\ Events("scan") # <<>>) =>
          /\ {e.arg[1] : e \in Range(Events("scan"))} = AnnotationType
          /\ result.kind \in {"io", "command_failed"}

C9_Witness ==
    /\ pc = "pipeline"
    /\ cmds # <<>>
    /\ \E k \in AnnotationType : GeneratePath(k) \notin DOMAIN Doc0
    /\ \E k \in AnnotationType :
          /\ GeneratePath(k) \in DOMAIN Doc0
          /\ yaml[GeneratePath(k)] # Doc0[GeneratePath(k)]

(***************************************************************************)
(* C10                                                                     *)
(***************************************************************************)
\* C10: a scan ends in error exactly when the root directory cannot be traversed,
\* and then the run ends with an error without build.yaml being created anew and
\* without a pipeline command; an unreadable file fails no scan.
C10_ScanErrorFatal ==
    /\ \A i \in 1..Len(log) :
          log[i].op = "scan" => (log[i].outcome # "success" <=> ~env.tree.root_ok)
    /\ (~env.tree.root_ok /\ Events("scan") # <<>>) =>
          /\ Events("create") = <<>>
          /\ PipelineSpawns = <<>>
          /\ pc = "done" => result.status = "err"

(***************************************************************************)
(* C6 (under SpecFormat)                                                   *)
(***************************************************************************)
\* C6: normalizing a text a second time changes nothing.
C6_Idempotent ==
    pc = "fmt2" => f_twice = f_once

(***************************************************************************)
(* C7 (under SpecScan)                                                     *)
(***************************************************************************)
\* The entries the scan can see and read whose content matches the kind's pattern
Matching ==
    {e \in s_tree.entries :
        /\ s_tree.root_ok /\ e.walk_ok /\ e.readable
        /\ HasDartExtension(e.path)
        /\ RegexIsMatch(s_kind, e.content)}

\* content holds "part of ", and a semicolon somewhere after it
HasPartOfClause(content) ==
    \E i \in 1..Len(content), j \in 1..Len(content) :
        /\ content[i] = PART_OF
        /\ i + 1 < j
        /\ content[i + 1] = " "
        /\ content[j] = ";"

\* The text between the first "part of " and the next semicolon, trimmed
DeclaredName(content) ==
    LET i == CHOOSE m \in 1..Len(content) :
                 /\ MatchesAt(content, <<PART_OF, " ">>, m)
                 /\ \A n \in 1..(m - 1) : ~MatchesAt(content, <<PART_OF, " ">>, n)
        j == CHOOSE m \in (i + 2)..Len(content) :
                 /\ content[m] = ";"
                 /\ \A n \in (i + 2)..(m - 1) : content[n] # ";"
    IN  Trim(SubSeq(content, i + 2, j - 1))

\* The path a matching entry is reported under
ReportedAs(e) == Quoted(process_part_of(e.path, e.content))

Count(v, x) == Cardinality({i \in 1..Len(v) : v[i] = x})

\* C7 (as amended): the list returned holds, for every .dart entry that the walk
\* yields, that can be read and whose content matches the pattern, one element:
\* the quoted path process_part_of gives for it, and nothing else.  An entry with
\* no part-of clause is reported under its own path; an entry with a clause that
\* names a relative path is reported as that name in the entry's directory.
C7_ScanReportsResolvedPaths ==
    pc = "scan_done" =>
        /\ Len(s_out) = Cardinality(Matching)
        /\ \A e \in Matching :
              Count(s_out, ReportedAs(e)) =
                  Cardinality({o \in Matching : ReportedAs(o) = ReportedAs(e)})
        /\ \A e \in Matching :
              IF HasPartOfClause(e.content)
              THEN Quoted(ParentOrEmpty(e.path) \o <<SEP>> \o DeclaredName(e.content))
                       \in Range(s_out)
              ELSE Quoted(e.path) \in Range(s_out)

C7_Witness ==
    /\ pc = "scan_done"
    /\ \E e \in Matching : HasPartOfClause(e.content) /\ ReportedAs(e) # Quoted(e.path)
    /\ \E e \in s_tree.entries :
          ~e.readable /\ HasDartExtension(e.path) /\ RegexIsMatch(s_kind, e.content)

\* C7 as stated: every path returned is the path of a .dart file whose content
\* matches, and the path of every readable matching .dart file is returned.
C7_Original ==
    pc = "scan_done" =>
        /\ \A i \in 1..Len(s_out) :
              \E e \in s_tree.entries :
                  /\ s_out[i] = Quoted(e.path)
                  /\ HasDartExtension(e.path)
                  /\ RegexIsMatch(s_kind, e.content)
        /\ \A e \in Matching : Quoted(e.path) \in Range(s_out)

(***************************************************************************)
(* C8 (under SpecPartOf)                                                   *)
(***************************************************************************)
\* C8: with a part-of clause the result is the parent directory of file_path, a
\* separator and the declared name; without one it is file_path.
C8_SiblingOfParent ==
    pc = "po_done" =>
        p_result =
            IF HasPartOfClause(p_content)
            THEN ParentOrEmpty(p_file) \o <<SEP>> \o DeclaredName(p_content)
            ELSE p_file

====
